---- MODULE Spec2Model ----
(***************************************************************************)
(* Model of pkg/proxy/proxy.go of sprayproxy: the SprayProxy object (its   *)
(* backends slice) and its four gin handlers HandleProxy, Register, List   *)
(* and Unregister.  Each handler runs in the goroutine of the HTTP request *)
(* that invoked it; the handlers share p.backends without any lock.        *)
(*                                                                         *)
(* Strings that the code parses (backend URLs, the request target) are     *)
(* sequences of lexical tokens: "http://a" is <<"http", ":", "//", "a">>.  *)
(* A Go slice is a header [arr, len, cap] pointing into heap[arr].         *)
(*                                                                         *)
(* Specifications: RelaySpec and RelayLiveSpec (relay and List calls       *)
(* alone, the second with fairness and every timeout), SeqSpec (all        *)
(* handlers, one request after another), AdminSpec (two concurrent admin   *)
(* calls), MutateSpec (one admin call beside a relay or List call) and     *)
(* RaceSpec (two admin calls beside a relay or List call).                 *)
(***************************************************************************)
EXTENDS Integers, Sequences, FiniteSets, TLC

(***************************************************************************)
(* Bounds of the model.                                                    *)
(***************************************************************************)
\* Register is not offered once the registry already holds this many entries.
MaxBackends == 4
\* NewSprayProxy is given at most this many backends.
MaxInitBackends == 3

(***************************************************************************)
(* Program constants.                                                      *)
(***************************************************************************)
\* const maxReqSize = 1024 * 1024 * 25
maxReqSize == 1024 * 1024 * 25

StatusOK == 200
StatusBadRequest == 400
StatusRequestEntityTooLarge == 413
StatusBadGateway == 502

(***************************************************************************)
(* Strings.                                                                *)
(***************************************************************************)
EmptyString == << >>

UrlA == <<"http", ":", "//", "a">>                 \* "http://a"
UrlB == <<"https", ":", "//", "b", "/hook">>       \* "https://b/hook"
UrlBadEscape == <<"http", ":", "//", "%zz">>       \* "http://%zz"
UrlNoScheme == <<"c">>                             \* "c"
UrlD == <<"http", ":", "//", "d">>                 \* "http://d"

SchemeTokens == {"http", "https"}
\* tokens that begin with '/', i.e. that end an authority
SlashTokens == {"/webhook", "/hook", "//"}
\* host texts parseHost rejects: an invalid escape, an unclosed '['
BadHostTokens == {"%zz", "["}
\* path texts unescape rejects
BadPathTokens == {"%zz"}

\* position of the first token tok of s at or after k, 0 when there is none
RECURSIVE IndexOf(_, _, _)
IndexOf(s, tok, k) ==
    IF k > Len(s) THEN 0
    ELSE IF s[k] = tok THEN k
    ELSE IndexOf(s, tok, k + 1)

\* strings.Join(elems, " ")
RECURSIVE Join(_)
Join(elems) ==
    IF Len(elems) = 0 THEN << >>
    ELSE IF Len(elems) = 1 THEN elems[1]
    ELSE elems[1] \o <<" ">> \o Join(Tail(elems))

(***************************************************************************)
(* net/url as the handlers use it.                                         *)
(***************************************************************************)
\* url.Parse(rawURL): scheme, then query, then authority, then path.
urlParse(s) ==
    LET hasScheme == Len(s) >= 2 /\ s[2] = ":" /\ s[1] \in SchemeTokens
        missingScheme == Len(s) >= 1 /\ s[1] = ":"
        rest1 == IF hasScheme THEN SubSeq(s, 3, Len(s)) ELSE s
        q == IndexOf(rest1, "?", 1)
        rest2 == IF q = 0 THEN rest1 ELSE SubSeq(rest1, 1, q - 1)
        query == IF q = 0 THEN << >> ELSE SubSeq(rest1, q + 1, Len(rest1))
        hasAuth == Len(rest2) >= 1 /\ rest2[1] = "//"
        hasHost == hasAuth /\ Len(rest2) >= 2 /\ rest2[2] \notin SlashTokens
        host == IF hasHost THEN rest2[2] ELSE ""
        path == IF hasHost THEN SubSeq(rest2, 3, Len(rest2))
                ELSE IF hasAuth THEN SubSeq(rest2, 2, Len(rest2))
                ELSE rest2
        bad == \/ missingScheme
               \/ host \in BadHostTokens
               \/ \E k \in 1..Len(path) : path[k] \in BadPathTokens
    IN  IF bad
        THEN [err |-> TRUE, Scheme |-> "", Host |-> "", Path |-> << >>, RawQuery |-> << >>]
        ELSE [err |-> FALSE, Scheme |-> IF hasScheme THEN s[1] ELSE "",
              Host |-> host, Path |-> path, RawQuery |-> query]

\* (*url.URL).String()
urlString(u) ==
    LET scheme == IF u.Scheme # "" THEN <<u.Scheme, ":">> ELSE << >>
        auth == IF (u.Scheme # "" \/ u.Host # "") /\ (u.Host # "" \/ u.Path # << >>)
                THEN <<"//">> \o (IF u.Host # "" THEN <<u.Host>> ELSE << >>)
                ELSE << >>
        query == IF u.RawQuery # << >> THEN <<"?">> \o u.RawQuery ELSE << >>
    IN  scheme \o auth \o u.Path \o query

(***************************************************************************)
(* The inbound request.                                                    *)
(***************************************************************************)
\* c.Request.URL of "POST /webhook?x=1" and of "POST //[" (the server parses
\* a request target as a path, a leading "//" included)
TargetWebhook == [Scheme |-> "", Host |-> "", Path |-> <<"/webhook">>, RawQuery |-> <<"x=1">>]
TargetSlashes == [Scheme |-> "", Host |-> "", Path |-> <<"//", "[">>, RawQuery |-> << >>]
\* ... and of "PUT //x", a path that reads like an authority
TargetHostLike == [Scheme |-> "", Host |-> "", Path |-> <<"//", "x">>, RawQuery |-> << >>]
Targets == {TargetWebhook, TargetSlashes, TargetHostLike}

\* c.Request: method, header and URL of the inbound requests
Requests ==
    {[Method |-> "POST", Header |-> <<"X-Foo: bar">>, URL |-> TargetWebhook],
     [Method |-> "GET", Header |-> << >>, URL |-> TargetSlashes],
     [Method |-> "PUT", Header |-> <<"X-Foo: bar", "X-Id: 1">>, URL |-> TargetHostLike]}

\* lengths of the inbound body
BodySizes == {0, maxReqSize, maxReqSize + 1}

\* http.MaxBytesReader(c.Writer, c.Request.Body, maxReqSize) read to the end
\* by buf.ReadFrom: an error once more than maxReqSize bytes arrive
BodyTooLargeAlt(size) == size >= maxReqSize
BodyTooLarge(size) == size > maxReqSize

\* a substitution that leaves scheme and host alone where the backend URL
\* has none
SubstituteWhereSet(url, backendURL) ==
    [url EXCEPT !.Host = IF backendURL.Host = "" THEN @ ELSE backendURL.Host,
                !.Scheme = IF backendURL.Scheme = "" THEN @ ELSE backendURL.Scheme]
\* newURL := copy.Request.URL; newURL.Host = backendURL.Host;
\* newURL.Scheme = backendURL.Scheme.  copy.Request is c.Request, so url is
\* the URL of the inbound request as the backends before have left it
Substitute(url, backendURL) ==
    [url EXCEPT !.Host = backendURL.Host, !.Scheme = backendURL.Scheme]

\* a reader that goes on where the reader before it stopped
ReuseReader(previous) == previous
\* bytes.NewReader(body): the offset of the new reader's cursor, whatever
\* offset the reader of the request before had reached
bytesNewReader(previous) == 0

\* the bytes of body a reader at offset off yields when read to the end, as
\* the range body[lo:hi]
ReadAll(off, size) == [lo |-> off, hi |-> size]
NoBody == [lo |-> 0, hi |-> 0]

\* http.NewRequest(method, url, body) fails when url does not parse (the
\* method of a request the server accepted is always a valid token)
NewRequestErr(rawURL) == urlParse(rawURL).err

\* status codes a backend that answers may answer with
BackendStatuses == {200, 500}

\* client.Do(newRequest): (resp, err).  The transport refuses a URL without
\* an http(s) scheme or without a host; otherwise the network decides between
\* an error (refused, timeout after fwdReqTmout) and a response.
ClientDo(u) ==
    LET failure == [err |-> TRUE, StatusCode |-> 0]
    IN  IF u.Scheme \notin SchemeTokens \/ u.Host = ""
        THEN {failure}
        ELSE {failure} \cup {[err |-> FALSE, StatusCode |-> st] : st \in BackendStatuses}

(***************************************************************************)
(* Slices.                                                                 *)
(***************************************************************************)
\* the nil slice, and []string{}: no array behind it
NilSlice == [arr |-> 0, len |-> 0, cap |-> 0]

\* the elements a slice header h denotes in heap hp
Elems(h, hp) == IF h.len = 0 THEN << >> ELSE SubSeq(hp[h.arr], 1, h.len)

\* the capacity append grows a full slice of capacity oldCap to (runtime
\* growslice, below 256 elements): double, or what is needed if that is more
GrowCap(oldCap, needed) == IF needed > 2 * oldCap THEN needed ELSE 2 * oldCap

\* an array id not in use in hp
NewArr(hp) == CHOOSE a \in 1..(Cardinality(DOMAIN hp) + 1) : a \notin DOMAIN hp

\* append that writes over the last element instead of after it
AppendOverLast(hp, h, v) ==
    LET a == NewArr(hp)
        kept == IF h.len = 0 THEN << >> ELSE SubSeq(hp[h.arr], 1, h.len - 1)
    IN  [heap |-> [x \in (DOMAIN hp) \cup {a} |-> IF x = a THEN kept \o <<v>> ELSE hp[x]],
         hdr  |-> [arr |-> a, len |-> Len(kept) + 1, cap |-> Len(kept) + 1]]

\* append(h, v) in heap hp: the new heap and the header returned.  With room
\* left the element is written into the array of h; otherwise into a new,
\* larger array the elements of h are copied to.
goAppend(hp, h, v) ==
    IF h.len < h.cap
    THEN [heap |-> [hp EXCEPT ![h.arr][h.len + 1] = v],
          hdr  |-> [h EXCEPT !.len = h.len + 1]]
    ELSE LET a == NewArr(hp)
             c == GrowCap(h.cap, h.len + 1)
             filled == Elems(h, hp) \o <<v>>
         IN  [heap |-> [x \in (DOMAIN hp) \cup {a} |->
                           IF x = a
                           THEN [k \in 1..c |-> IF k <= Len(filled) THEN filled[k]
                                                ELSE EmptyString]
                           ELSE hp[x]],
              hdr  |-> [arr |-> a, len |-> h.len + 1, cap |-> c]]

(***************************************************************************)
(* State.                                                                  *)
(***************************************************************************)
VARIABLES
    heap,       \* the backing arrays of the []string slices: id -> elements
    backends,   \* p.backends, a slice header
    loc,        \* per goroutine: the handler it runs and the handler's locals
    last,       \* history: the call that returned last
    fwdReqTmout \* p.fwdReqTmout, in seconds

vars == <<heap, backends, loc, last, fwdReqTmout>>

\* goroutines serving relay and list requests, and admin requests
Clients == {"r1"}
Admins == {"a1", "a2"}
Procs == Clients \cup Admins

NoURL == [Scheme |-> "", Host |-> "", Path |-> << >>, RawQuery |-> << >>]
\* no outbound request
NoRequest == [Method |-> "", URL |-> NoURL, Header |-> << >>, Body |-> NoBody]

\* a goroutine that runs no handler
Idle ==
    [pc |-> "idle", op |-> "none", server |-> EmptyString,
     size |-> 0, method |-> "", header |-> << >>, url |-> NoURL,
     reader |-> 0, newRequest |-> NoRequest,
     hdr |-> NilSlice, i |-> 0, backend |-> EmptyString, newBackend |-> NilSlice,
     errors |-> 0, log |-> << >>,
     inbound |-> 0, forwarded |-> 0, latency |-> 0,
     responses |-> 0, status |-> 0, body |-> << >>,
     \* history, not read by any handler: the registry when the call began,
     \* whether every other goroutine was idle then, the URL of the inbound
     \* request as it arrived, and, of a relay or List call that has read
     \* p.backends: the list it got, the admin calls that were running and
     \* those that had been answered then
     pre |-> << >>, quiet |-> FALSE, target |-> NoURL,
     read |-> FALSE, snap |-> << >>, during |-> {}, settled |-> {}]

\* the arrays still referenced from p.backends or from a handler's local
Live(b, l) ==
    ({b.arr} \cup {l[p].hdr.arr : p \in Procs} \cup {l[p].newBackend.arr : p \in Procs}) \ {0}

\* the garbage collector: unreferenced arrays are gone
Collect(hp, b, l) == [a \in (DOMAIN hp) \cap Live(b, l) |-> hp[a]]

(***************************************************************************)
(* HandleProxy.                                                            *)
(***************************************************************************)
\* `break` where the code has `continue`
BreakOnFailure(i, n) == n
\* the same element again where the code has `continue`
RetryOnFailure(i, n) == i
\* `continue` after a failed backend: on to the next element of the range
OnFailure(i, n) == i + 1

\* a status >= 400 counted as an error
ErrorsAfterBadStatus(errors, status) == IF status >= 400 THEN errors + 1 ELSE errors
\* errors after a backend answered: a status >= 400 is logged with the
\* response body and is not appended to errors
ErrorsAfterResponse(errors, status) == errors

\* errors after url.Parse(backend) failed: logged, nothing appended
ErrorsAfterParseFailure(errors) == errors

\* the locals l of a call of p that begins now, with its history fields
Began(p, l) ==
    [l EXCEPT !.pre = Elems(backends, heap),
              !.quiet = \A q \in Procs \ {p} : loc[q].pc = "idle"]

\* the slice headers about to be stored into p.backends: Register has its
\* appended slice, Unregister has filtered the last element
Storing(q) ==
    \/ loc[q].pc = "rstore"
    \/ loc[q].pc = "ufilter" /\ loc[q].i >= loc[q].hdr.len

\* the number of elements of array a of the heap
ArrLen(a) == IF a \in DOMAIN heap THEN Len(heap[a]) ELSE 0

\* a read of p.backends without a lock.  A slice header is three words (arr,
\* len, cap), and the store of another goroutine writes them one by one: a
\* read that races with a store gets each word from before or from after
\* the store.  Headers whose len exceeds the array they point to are left
\* out: ranging over them faults or reads foreign memory.  Register and
\* Unregister read p.backends in the same way; their reads are modelled as
\* getting the header whole.
ReadBackends ==
    {backends} \cup
    {h \in UNION {[arr : {backends.arr, loc[q].newBackend.arr},
                   len : {backends.len, loc[q].newBackend.len},
                   cap : {backends.cap, loc[q].newBackend.cap}] :
                      q \in {a \in Procs : Storing(a)}} :
        h.len <= ArrLen(h.arr)}

\* list was read from p.backends by the call with locals l, now
ReadNow(l, list) ==
    [l EXCEPT !.read = TRUE, !.snap = list,
              !.during = {q \in Procs : loc[q].pc \notin {"idle", "done"}
                                        /\ loc[q].op \in {"Register", "Unregister"}},
              !.settled = {q \in Procs : loc[q].pc = "done"
                                         /\ loc[q].op \in {"Register", "Unregister"}}]

\* a backend counted as forwarded although its request was not built
ForwardedCountedOnSkip(forwarded) == forwarded + 1
\* the forwarded count after http.NewRequest failed: `continue` comes before
\* metrics.IncForwardedCount
ForwardedAfterSkip(forwarded) == forwarded

\* a range that passes over the element after one that answered
NextAfterNext(i) == i + 2
\* the end of the loop body: the range moves to the next element
NextElement(i) == i + 1

\* a request may arrive at goroutine p: always, or, with serial, only while
\* no other handler is running
Arrives(p, serial) ==
    /\ loc[p].pc = "idle"
    /\ serial => \A q \in Procs \ {p} : loc[q].pc = "idle"

\* a handler that goes on to the loop after it has answered 413
FallThroughAfterTooLarge == "range"
\* c.String(http.StatusRequestEntityTooLarge, ...); return
AfterTooLarge == "done"

\* metrics.IncInboundCount(), then the body is read through MaxBytesReader
RelayBegin(p, size, request, serial) ==
    /\ Arrives(p, serial)
    /\ loc' = [loc EXCEPT ![p] =
                 IF BodyTooLarge(size)
                 THEN Began(p, [Idle EXCEPT !.pc = AfterTooLarge, !.op = "HandleProxy",
                                   !.size = size, !.method = request.Method,
                                   !.header = request.Header,
                                   !.url = request.URL, !.target = request.URL,
                                   !.inbound = 1,
                                   !.responses = @ + 1, !.status = StatusRequestEntityTooLarge,
                                   !.body = <<"request body too large">>])
                 ELSE Began(p, [Idle EXCEPT !.pc = "range", !.op = "HandleProxy",
                                   !.size = size, !.method = request.Method,
                                   !.header = request.Header,
                                   !.url = request.URL, !.target = request.URL,
                                   !.inbound = 1])]
    /\ UNCHANGED <<heap, backends, last, fwdReqTmout>>

\* for _, backend := range p.backends: the slice header is read once
RelayRange(p) ==
    /\ loc[p].pc = "range"
    /\ \E h \in ReadBackends :
          loc' = [loc EXCEPT ![p] =
                    ReadNow([loc[p] EXCEPT !.pc = "iter", !.hdr = h, !.i = 0],
                            Elems(h, heap))]
    /\ UNCHANGED <<heap, backends, last, fwdReqTmout>>

\* one pass of the loop body up to client.Do.  backend, backendURL, newURL
\* and the text of newURL are each computed once, as in the code.
RelayIter(p) ==
    LET l == loc[p]
        entry(backend, kind) == [i |-> l.i, backend |-> backend, kind |-> kind,
                                 status |-> 0, request |-> NoRequest]
    IN  /\ l.pc = "iter"
        /\ l.i < l.hdr.len
        /\ \E backend \in {heap[l.hdr.arr][l.i + 1]} :
           \E backendURL \in {urlParse(backend)} :
           \E newURL \in {Substitute(l.url, backendURL)} :
           \E rawURL \in {urlString(newURL)} :
              loc' = [loc EXCEPT ![p] =
                        IF backendURL.err
                        THEN [l EXCEPT !.log = Append(@, entry(backend, "parse")),
                                       !.errors = ErrorsAfterParseFailure(@),
                                       !.i = OnFailure(l.i, l.hdr.len)]
                        ELSE IF NewRequestErr(rawURL)
                        THEN [l EXCEPT !.url = newURL,
                                       !.log = Append(@, entry(backend, "construct")),
                                       !.errors = @ + 1,
                                       !.forwarded = ForwardedAfterSkip(@),
                                       !.i = OnFailure(l.i, l.hdr.len)]
                        ELSE [l EXCEPT !.url = newURL,
                                       !.reader = bytesNewReader(@),
                                       !.newRequest =
                                           [Method |-> l.method,
                                            URL |-> urlParse(rawURL),
                                            Header |-> l.header,
                                            Body |-> ReadAll(bytesNewReader(l.reader), l.size)],
                                       !.backend = backend,
                                       !.forwarded = @ + 1,
                                       !.pc = "do"]]
        /\ UNCHANGED <<heap, backends, last, fwdReqTmout>>

\* client.Do(newRequest) returns.  A response comes after the transport has
\* read the body to its end; a failure may come before or after that.
RelayDo(p, r) ==
    LET l == loc[p]
        entry(kind) == [i |-> l.i, backend |-> l.backend, kind |-> kind,
                        status |-> r.StatusCode, request |-> l.newRequest]
    IN  /\ l.pc = "do"
        /\ r \in ClientDo(l.newRequest.URL)
        /\ \E off \in (IF r.err THEN {l.reader, l.size} ELSE {l.size}) :
              loc' = [loc EXCEPT ![p] =
                        IF r.err
                        THEN [l EXCEPT !.latency = @ + 1,
                                       !.log = Append(@, entry("transport")),
                                       !.errors = @ + 1,
                                       !.i = OnFailure(l.i, l.hdr.len),
                                       !.reader = off,
                                       !.newRequest = NoRequest,
                                       !.backend = EmptyString,
                                       !.pc = "iter"]
                        ELSE [l EXCEPT !.latency = @ + 1,
                                       !.log = Append(@, entry("response")),
                                       !.errors = ErrorsAfterResponse(@, r.StatusCode),
                                       !.i = NextElement(@),
                                       !.reader = off,
                                       !.newRequest = NoRequest,
                                       !.backend = EmptyString,
                                       !.pc = "iter"]]
        /\ UNCHANGED <<heap, backends, last, fwdReqTmout>>

\* a call that fails also when nothing was appended to errors
ProxyFailedAlways(errors) == errors >= 0
\* if len(errors) > 0
ProxyFailed(errors) == errors > 0

\* after the loop: 502 when errors is not empty, 200 otherwise
RelayReply(p) ==
    LET l == loc[p]
    IN  /\ l.pc = "iter"
        /\ l.i >= l.hdr.len
        /\ loc' = [loc EXCEPT ![p] =
                     IF ProxyFailed(l.errors)
                     THEN [l EXCEPT !.pc = "done", !.responses = @ + 1, !.status = StatusBadGateway,
                                    !.body = <<"failed to proxy">>]
                     ELSE [l EXCEPT !.pc = "done", !.responses = @ + 1, !.status = StatusOK,
                                    !.body = <<"proxied">>]]
        /\ UNCHANGED <<heap, backends, last, fwdReqTmout>>

(***************************************************************************)
(* List.                                                                   *)
(***************************************************************************)
\* a List that leaves the proxy without backends
ListClearing(p, serial) ==
    /\ Arrives(p, serial)
    /\ \E h \in ReadBackends :
          loc' = [loc EXCEPT ![p] =
                    ReadNow(Began(p, [Idle EXCEPT !.pc = "done", !.op = "List",
                                                  !.responses = @ + 1,
                                                  !.status = StatusOK,
                                                  !.body = Join(Elems(h, heap))]),
                            Elems(h, heap))]
    /\ backends' = NilSlice
    /\ UNCHANGED <<heap, last, fwdReqTmout>>

\* b := p.Backends(); c.String(200, strings.Join(b, " "))
List(p, serial) ==
    /\ Arrives(p, serial)
    /\ \E h \in ReadBackends :
          loc' = [loc EXCEPT ![p] =
                    ReadNow(Began(p, [Idle EXCEPT !.pc = "done", !.op = "List",
                                                  !.responses = @ + 1,
                                                  !.status = StatusOK,
                                                  !.body = Join(Elems(h, heap))]),
                            Elems(h, heap))]
    /\ UNCHANGED <<heap, backends, last, fwdReqTmout>>

\* the handler has returned and its response is with the caller
Return(p) ==
    /\ loc[p].pc = "done"
    /\ loc' = [loc EXCEPT ![p] = Idle]
    /\ last' = [op |-> loc[p].op, server |-> loc[p].server, status |-> loc[p].status]
    /\ heap' = Collect(heap, backends, loc')
    /\ UNCHANGED <<backends, fwdReqTmout>>

(***************************************************************************)
(* The relay alone, over every backend list NewSprayProxy may be given.    *)
(***************************************************************************)
\* the backend strings the lists are made of
RelayUrls == {UrlA, UrlB, UrlBadEscape, UrlNoScheme}

\* the sequences without repetition over S of length at most n
RECURSIVE DistinctSeqs(_, _)
DistinctSeqs(S, n) ==
    IF n = 0 THEN {<< >>}
    ELSE LET shorter == DistinctSeqs(S, n - 1)
         IN  shorter \cup
             {Append(q, x) : <<q, x>> \in
                 {t \in shorter \X S : \A k \in 1..Len(t[1]) : t[1][k] # t[2]}}

\* fwdReqTmout := 15 * time.Second
DefaultTimeout == 15
\* durations SPRAYPROXY_FORWARDING_REQUEST_TIMEOUT may set instead, in
\* seconds: time.ParseDuration accepts "0" as it accepts "30s"
Timeouts == {0, 30}

\* NewSprayProxy(insecureTLS, logger, backends...): p.backends is the
\* argument slice, p.fwdReqTmout the duration of the environment variable
\* or the default
NewSprayProxy(list, duration) ==
    /\ heap = IF Len(list) = 0 THEN << >> ELSE <<list>>
    /\ backends = IF Len(list) = 0 THEN NilSlice
                  ELSE [arr |-> 1, len |-> Len(list), cap |-> Len(list)]
    /\ loc = [p \in Procs |-> Idle]
    /\ last = [op |-> "none", server |-> EmptyString, status |-> 0]
    /\ fwdReqTmout = duration

RelayInit == \E list \in DistinctSeqs(RelayUrls, MaxInitBackends) : NewSprayProxy(list, DefaultTimeout)

RelayNext ==
    \E p \in Clients :
        \/ \E size \in BodySizes, request \in Requests : RelayBegin(p, size, request, FALSE)
        \/ RelayRange(p)
        \/ RelayIter(p)
        \/ \E r \in [err : BOOLEAN, StatusCode : BackendStatuses \cup {0}] : RelayDo(p, r)
        \/ RelayReply(p)
        \/ List(p, FALSE)
        \/ Return(p)

RelaySpec == RelayInit /\ [][RelayNext]_vars

(***************************************************************************)
(* Properties of one relay call.                                           *)
(***************************************************************************)
\* the HandleProxy call of p has written its response
RelayDone(p) == loc[p].op = "HandleProxy" /\ loc[p].pc = "done"

\* ... and its body had been accepted
RelayAccepted(p) == RelayDone(p) /\ loc[p].status # StatusRequestEntityTooLarge

\* the kinds of failure of one backend
FailureKinds == {"parse", "construct", "transport"}

\* the entries of the list the call ranges over, by 0-based index
Indices(p) == 0..(loc[p].hdr.len - 1)
BackendAt(p, k) == heap[loc[p].hdr.arr][k + 1]

\* the URL of backend k parses / its request can be constructed
ParsesAt(p, k) == ~urlParse(BackendAt(p, k)).err
ConstructsAt(p, k) ==
    LET u == urlParse(BackendAt(p, k))
    IN  ~NewRequestErr(urlString([loc[p].url EXCEPT !.Host = u.Host, !.Scheme = u.Scheme]))

\* how many times client.Do was called for entry k, a call in flight included
Sent(p, k) ==
    Cardinality({n \in 1..Len(loc[p].log) :
                    loc[p].log[n].i = k /\ loc[p].log[n].kind \in {"transport", "response"}})
    + (IF loc[p].pc = "do" /\ loc[p].i = k THEN 1 ELSE 0)

\* C1: a relay call whose body was accepted answers 502 "failed to proxy" when
\* some backend failed at URL parsing, request construction or transport, and
\* 200 "proxied" when none did.
C1_AnyFailureIsBadGateway ==
    \A p \in Clients :
        RelayAccepted(p) =>
            IF \E n \in 1..Len(loc[p].log) : loc[p].log[n].kind \in FailureKinds
            THEN loc[p].status = StatusBadGateway /\ loc[p].body = <<"failed to proxy">>
            ELSE loc[p].status = StatusOK /\ loc[p].body = <<"proxied">>

\* C2: no short-circuit: when a relay call has ended, every backend of its
\* list whose URL parses and whose request can be constructed was sent its
\* request, whatever failed at the backends before or after it.
C2_NoShortCircuit ==
    \A p \in Clients :
        RelayAccepted(p) =>
            \A k \in Indices(p) :
                (ParsesAt(p, k) /\ ConstructsAt(p, k)) => Sent(p, k) = 1

\* a call over three backends whose middle one failed and whose first and
\* last one answered
C2_Witness ==
    \E p \in Clients :
        /\ RelayAccepted(p)
        /\ Len(loc[p].log) = 3
        /\ loc[p].log[1].kind = "response"
        /\ loc[p].log[2].kind \in FailureKinds
        /\ loc[p].log[3].kind = "response"

\* every backend of the list of the call got an HTTP response
AllAnswered(p) ==
    \A k \in Indices(p) :
        \E n \in 1..Len(loc[p].log) : loc[p].log[n].i = k /\ loc[p].log[n].kind = "response"

\* C3: a relay call over a non-empty list all of whose backends answered
\* returns 200 "proxied", whatever the status codes of the answers.
C3_StatusNeverFails ==
    \A p \in Clients :
        (RelayAccepted(p) /\ loc[p].hdr.len > 0 /\ AllAnswered(p)) =>
            loc[p].status = StatusOK /\ loc[p].body = <<"proxied">>

\* a call all of whose backends answered, one of them with a status >= 400
C3_Witness ==
    \E p \in Clients :
        /\ RelayAccepted(p) /\ loc[p].hdr.len > 1 /\ AllAnswered(p)
        /\ \E n \in 1..Len(loc[p].log) : loc[p].log[n].status >= 400

\* C4 as stated: no backend is ever sent more than one request in a call, and
\* at the end of the call every backend whose URL parses was sent one request
\* and every other backend none.
C4_OnceUnlessParseFailure ==
    \A p \in Clients :
        /\ \A k \in Indices(p) : Sent(p, k) <= 1
        /\ RelayAccepted(p) =>
              \A k \in Indices(p) : Sent(p, k) = IF ParsesAt(p, k) THEN 1 ELSE 0

\* C4, amended: no backend is ever sent more than one request in a call, and
\* at the end of the call every backend whose URL parses and whose request
\* could be constructed was sent one request and every other backend none.
C4_OnceUnlessNotBuilt ==
    \A p \in Clients :
        /\ \A k \in Indices(p) : Sent(p, k) <= 1
        /\ RelayAccepted(p) =>
              \A k \in Indices(p) :
                  Sent(p, k) = IF ParsesAt(p, k) /\ ConstructsAt(p, k) THEN 1 ELSE 0

\* a finished call over a list with a backend whose URL does not parse, one
\* whose request could not be constructed, and one whose transport failed
C4_Witness ==
    \E p \in Clients :
        /\ RelayAccepted(p)
        /\ \A kind \in FailureKinds :
              \E n \in 1..Len(loc[p].log) : loc[p].log[n].kind = kind

\* C5: a relay call whose body is longer than 25 MiB is answered 413 without
\* any backend being contacted or counted; a body of exactly 25 MiB is not
\* answered 413 and is relayed to every backend of the list.
C5_OversizeRejected ==
    \A p \in Clients :
        loc[p].op = "HandleProxy" =>
            /\ loc[p].size > 25 * 1024 * 1024 =>
                  /\ loc[p].pc = "done"
                  /\ loc[p].status = StatusRequestEntityTooLarge
                  /\ loc[p].log = << >>
                  /\ loc[p].forwarded = 0 /\ loc[p].latency = 0
            /\ loc[p].size <= 25 * 1024 * 1024 =>
                  /\ loc[p].status # StatusRequestEntityTooLarge
                  /\ RelayDone(p) =>
                        \A k \in Indices(p) :
                            \E n \in 1..Len(loc[p].log) : loc[p].log[n].i = k

\* a body of 25 MiB + 1 byte rejected while two backends are registered
C5_Witness ==
    \E p \in Clients :
        /\ RelayDone(p)
        /\ loc[p].size = 25 * 1024 * 1024 + 1
        /\ loc[p].status = StatusRequestEntityTooLarge
        /\ backends.len = 2

(***************************************************************************)
(* Register and Unregister.                                                *)
(***************************************************************************)
\* the values of the "server" query parameter
Servers == {EmptyString, UrlA, UrlB, UrlBadEscape}

\* a duplicate check that never matches
MatchesNever(v, server) == FALSE
\* Register: v == server
Matches(v, server) == v = server

\* a filter that keeps what it should drop
KeepsMatching(v, server) == v = server
\* Unregister: v != server
Keeps(v, server) == v # server

\* server := c.Query("server"); 400 when empty; else the range over
\* p.backends begins
RegisterBegin(p, server, serial) ==
    /\ Arrives(p, serial)
    /\ \/ server = EmptyString
       \/ backends.len < MaxBackends
       \/ \E k \in 1..backends.len : heap[backends.arr][k] = server
    /\ loc' = [loc EXCEPT ![p] =
                 IF server = EmptyString
                 THEN Began(p, [Idle EXCEPT !.pc = "done", !.op = "Register",
                                   !.server = server,
                                   !.responses = @ + 1, !.status = StatusBadRequest,
                                   !.body = <<"server parameter is missing">>])
                 ELSE Began(p, [Idle EXCEPT !.pc = "rcheck", !.op = "Register",
                                   !.server = server, !.hdr = backends])]
    /\ UNCHANGED <<heap, backends, last, fwdReqTmout>>

\* one element of the range: 400 "already there" when it equals server
RegisterCheck(p) ==
    LET l == loc[p]
    IN  /\ l.pc = "rcheck"
        /\ l.i < l.hdr.len
        /\ loc' = [loc EXCEPT ![p] =
                     IF Matches(heap[l.hdr.arr][l.i + 1], l.server)
                     THEN [l EXCEPT !.pc = "done", !.responses = @ + 1, !.status = StatusBadRequest,
                                    !.body = <<"already there">>,
                                    !.hdr = NilSlice, !.i = 0]
                     ELSE [l EXCEPT !.i = @ + 1]]
        /\ heap' = Collect(heap, backends, loc')
        /\ UNCHANGED <<backends, last, fwdReqTmout>>

\* append(p.backends, server): p.backends is read and the element written
RegisterAppend(p) ==
    LET l == loc[p]
        r == goAppend(heap, backends, l.server)
    IN  /\ l.pc = "rcheck"
        /\ l.i >= l.hdr.len
        /\ loc' = [loc EXCEPT ![p] = [l EXCEPT !.pc = "rstore", !.newBackend = r.hdr,
                                                !.hdr = NilSlice, !.i = 0]]
        /\ heap' = Collect(r.heap, backends, loc')
        /\ UNCHANGED <<backends, last, fwdReqTmout>>

\* a store that waits until no relay call is between reading p.backends and
\* its response, as under a lock that relay calls hold for reading
RegisterStoreAfterRelays(p) ==
    LET l == loc[p]
    IN  /\ l.pc = "rstore"
        /\ \A c \in Clients : loc[c].pc \notin {"iter", "do"}
        /\ backends' = l.newBackend
        /\ loc' = [loc EXCEPT ![p] = [l EXCEPT !.pc = "rreply", !.newBackend = NilSlice]]
        /\ heap' = Collect(heap, backends', loc')
        /\ UNCHANGED <<last, fwdReqTmout>>

\* p.backends = (the slice append returned)
RegisterStore(p) ==
    LET l == loc[p]
    IN  /\ l.pc = "rstore"
        /\ backends' = l.newBackend
        /\ loc' = [loc EXCEPT ![p] = [l EXCEPT !.pc = "rreply", !.newBackend = NilSlice]]
        /\ heap' = Collect(heap, backends', loc')
        /\ UNCHANGED <<last, fwdReqTmout>>

\* c.String(200, strings.Join(p.backends, " "))
RegisterReply(p) ==
    LET l == loc[p]
    IN  /\ l.pc = "rreply"
        /\ loc' = [loc EXCEPT ![p] = [l EXCEPT !.pc = "done", !.responses = @ + 1, !.status = StatusOK,
                                                !.body = Join(Elems(backends, heap))]]
        /\ UNCHANGED <<heap, backends, last, fwdReqTmout>>

\* server := c.Query("server"); 400 when empty; else newBackend := []string{}
\* and the range over p.backends begins
UnregisterBegin(p, server, serial) ==
    /\ Arrives(p, serial)
    /\ loc' = [loc EXCEPT ![p] =
                 IF server = EmptyString
                 THEN Began(p, [Idle EXCEPT !.pc = "done", !.op = "Unregister",
                                   !.server = server,
                                   !.responses = @ + 1, !.status = StatusBadRequest,
                                   !.body = <<"server parameter is missing">>])
                 ELSE Began(p, [Idle EXCEPT !.pc = "ufilter", !.op = "Unregister",
                                   !.server = server, !.hdr = backends])]
    /\ UNCHANGED <<heap, backends, last, fwdReqTmout>>

\* one element of the range: appended to newBackend unless it equals server
UnregisterFilter(p) ==
    LET l == loc[p]
        v == heap[l.hdr.arr][l.i + 1]
        r == IF Keeps(v, l.server) THEN goAppend(heap, l.newBackend, v)
             ELSE [heap |-> heap, hdr |-> l.newBackend]
    IN  /\ l.pc = "ufilter"
        /\ l.i < l.hdr.len
        /\ loc' = [loc EXCEPT ![p] = [l EXCEPT !.newBackend = r.hdr, !.i = @ + 1]]
        /\ heap' = Collect(r.heap, backends, loc')
        /\ UNCHANGED <<backends, last, fwdReqTmout>>

\* p.backends = newBackend
UnregisterStore(p) ==
    LET l == loc[p]
    IN  /\ l.pc = "ufilter"
        /\ l.i >= l.hdr.len
        /\ backends' = l.newBackend
        /\ loc' = [loc EXCEPT ![p] = [l EXCEPT !.pc = "ureply", !.newBackend = NilSlice,
                                                !.hdr = NilSlice, !.i = 0]]
        /\ heap' = Collect(heap, backends', loc')
        /\ UNCHANGED <<last, fwdReqTmout>>

\* c.String(200, strings.Join(p.backends, " "))
UnregisterReply(p) ==
    LET l == loc[p]
    IN  /\ l.pc = "ureply"
        /\ loc' = [loc EXCEPT ![p] = [l EXCEPT !.pc = "done", !.responses = @ + 1, !.status = StatusOK,
                                                !.body = Join(Elems(backends, heap))]]
        /\ UNCHANGED <<heap, backends, last, fwdReqTmout>>

(***************************************************************************)
(* The admin requests.  Every handler runs in the goroutine of its         *)
(* request, and no handler takes a lock.                                   *)
(***************************************************************************)
\* the registry the admin requests start from
AdminInit ==
    \E list \in DistinctSeqs(Servers \ {EmptyString}, MaxInitBackends) : NewSprayProxy(list, DefaultTimeout)

\* the steps of a Register or Unregister call of goroutine p
AdminCall(p, serial) ==
    \/ \E server \in Servers : RegisterBegin(p, server, serial)
    \/ RegisterCheck(p)
    \/ RegisterAppend(p)
    \/ RegisterStore(p)
    \/ RegisterReply(p)
    \/ \E server \in Servers : UnregisterBegin(p, server, serial)
    \/ UnregisterFilter(p)
    \/ UnregisterStore(p)
    \/ UnregisterReply(p)

\* the steps of a relay or List call of goroutine p
ClientCall(p, serial) ==
    \/ \E size \in BodySizes, request \in Requests : RelayBegin(p, size, request, serial)
    \/ RelayRange(p)
    \/ RelayIter(p)
    \/ \E r \in [err : BOOLEAN, StatusCode : BackendStatuses \cup {0}] : RelayDo(p, r)
    \/ RelayReply(p)
    \/ List(p, serial)

\* requests that arrive one after another, without end: a handler starts
\* only when every earlier one has returned
SeqNext ==
    \/ \E p \in Clients : ClientCall(p, TRUE)
    \/ \E p \in Admins : AdminCall(p, TRUE)
    \/ \E p \in Procs : Return(p)

SeqSpec == AdminInit /\ [][SeqNext]_vars

\* one admin request per admin goroutine, the two running concurrently
AdminNext == \E p \in Admins : AdminCall(p, FALSE)

AdminSpec == AdminInit /\ [][AdminNext]_vars

(***************************************************************************)
(* Properties of the registry.                                             *)
(***************************************************************************)
\* the backend list
Registry == Elems(backends, heap)

\* goroutine p has answered a call of handler op
AdminDone(p, op) == loc[p].op = op /\ loc[p].pc = "done"

\* string s is an entry of list
Contains(list, s) == \E k \in 1..Len(list) : list[k] = s

\* list without the entries equal to s
Without(list, s) == SelectSeq(list, LAMBDA v : v # s)

\* C6: Register of a non-empty URL that is not in the registry answers 200,
\* leaves the registry as it was plus that URL at the end, and returns the
\* resulting list.
C6_RegisterAppends ==
    \A p \in Admins :
        (/\ AdminDone(p, "Register")
         /\ loc[p].server # EmptyString
         /\ ~Contains(loc[p].pre, loc[p].server)) =>
            /\ loc[p].status = StatusOK
            /\ Registry = Append(loc[p].pre, loc[p].server)
            /\ loc[p].body = Join(Append(loc[p].pre, loc[p].server))

\* Register("https://b/hook") answered on the registry ["http://a"]
C6_Witness ==
    \E p \in Admins :
        /\ AdminDone(p, "Register")
        /\ loc[p].pre = <<UrlA>> /\ loc[p].server = UrlB
        /\ Registry = <<UrlA, UrlB>>
        /\ loc[p].status = StatusOK

\* C7: a Register or Unregister call answered 400 leaves the registry as it
\* was; and a Register(u) that follows a Register(u) directly is answered
\* 400 and leaves the registry as the first call left it.
C7_RejectedLeavesRegistry ==
    \A p \in Admins :
        /\ (loc[p].op \in {"Register", "Unregister"} /\ loc[p].pc = "done"
            /\ loc[p].status = StatusBadRequest) => Registry = loc[p].pre
        /\ (AdminDone(p, "Register") /\ last.op = "Register"
            /\ last.server = loc[p].server) =>
               loc[p].status = StatusBadRequest /\ Registry = loc[p].pre

\* a Register(u) answered 400 directly after a Register(u) answered 200
C7_Witness ==
    \E p \in Admins :
        /\ AdminDone(p, "Register")
        /\ last = [op |-> "Register", server |-> loc[p].server, status |-> StatusOK]
        /\ loc[p].status = StatusBadRequest
        /\ Len(Registry) = 2

\* C8: Unregister of a non-empty URL answers 200, leaves the registry as it
\* was without the entries equal to that URL, the others in their order, and
\* returns the resulting list; so also when the URL was not registered.
C8_UnregisterRemoves ==
    \A p \in Admins :
        (AdminDone(p, "Unregister") /\ loc[p].server # EmptyString) =>
            /\ loc[p].status = StatusOK
            /\ Registry = Without(loc[p].pre, loc[p].server)
            /\ ~Contains(Registry, loc[p].server)
            /\ loc[p].body = Join(Without(loc[p].pre, loc[p].server))

\* Unregister of the first of two registered URLs answered
C8_Witness ==
    \E p \in Admins :
        /\ AdminDone(p, "Unregister")
        /\ Len(loc[p].pre) = 2 /\ loc[p].server = loc[p].pre[1]
        /\ Registry = <<loc[p].pre[2]>>
        /\ loc[p].status = StatusOK

\* C9: no two entries of the backend list are equal.
C9_NoDuplicates ==
    \A j, k \in 1..Len(Registry) : j # k => Registry[j] # Registry[k]

\* the effect of a call on a registry that no other call touches: the
\* resulting list and the status
Serial(op, server, list) ==
    IF server = EmptyString THEN [list |-> list, status |-> StatusBadRequest]
    ELSE IF op = "Unregister" THEN [list |-> Without(list, server), status |-> StatusOK]
    ELSE IF Contains(list, server) THEN [list |-> list, status |-> StatusBadRequest]
    ELSE [list |-> Append(list, server), status |-> StatusOK]

\* the calls of p and then of q, run one after the other from list, end with
\* the statuses the two calls got and with the present registry
ExplainedBy(p, q, list) ==
    LET first == Serial(loc[p].op, loc[p].server, list)
        second == Serial(loc[q].op, loc[q].server, first.list)
    IN  /\ loc[p].status = first.status
        /\ loc[q].status = second.status
        /\ Registry = second.list

\* C10: when two concurrent Register/Unregister calls have both been
\* answered, the registry and the two answers are those of the two calls run
\* one after the other, in one order or the other, from the registry the
\* earlier of them began with.
C10_Serializable ==
    \A p, q \in Admins :
        (/\ p # q
         /\ loc[p].pc = "done" /\ loc[q].pc = "done"
         /\ loc[p].quiet) =>
            \/ ExplainedBy(p, q, loc[p].pre)
            \/ ExplainedBy(q, p, loc[p].pre)

(***************************************************************************)
(* The relay and the empty registry.                                       *)
(***************************************************************************)
\* C20: a relay call whose body was accepted and that ran while the registry
\* was empty executed no outbound request, counted none, and is answered
\* 200 "proxied".
C20_EmptyRegistryProxied ==
    \A p \in Clients :
        (RelayAccepted(p) /\ loc[p].pre = << >> /\ Registry = << >>) =>
            /\ loc[p].log = << >>
            /\ \A k \in 0..MaxInitBackends : Sent(p, k) = 0
            /\ loc[p].forwarded = 0
            /\ loc[p].status = StatusOK
            /\ loc[p].body = <<"proxied">>

\* a relay call answered on a registry that the Unregister call before it
\* had emptied
C20_Witness ==
    \E p \in Clients :
        /\ RelayAccepted(p)
        /\ loc[p].pre = << >> /\ Registry = << >>
        /\ last.op = "Unregister" /\ last.status = StatusOK
        /\ loc[p].status = StatusOK

\* C19: while a relay or List call runs, and when it has answered (200, 413
\* or 502), the backend list is, in content and order, the list the call
\* began with, no Register or Unregister having run since.
C19_ReadersLeaveRegistry ==
    \A p \in Clients :
        loc[p].op \in {"HandleProxy", "List"} => Registry = loc[p].pre

\* a List call answered on a registry of two backends directly after a
\* relay call that was answered 502
C19_Witness ==
    \E p \in Clients :
        /\ loc[p].op = "List" /\ loc[p].pc = "done"
        /\ last.op = "HandleProxy" /\ last.status = StatusBadGateway
        /\ Len(loc[p].pre) = 2 /\ Registry = loc[p].pre

(***************************************************************************)
(* Metrics of one relay call.                                              *)
(***************************************************************************)
\* the entries for which client.Do was called / has returned
Executed(p) == {k \in Indices(p) : Sent(p, k) > 0}
Observed(p) ==
    {k \in Indices(p) :
        \E n \in 1..Len(loc[p].log) :
            loc[p].log[n].i = k /\ loc[p].log[n].kind \in {"transport", "response"}}

\* C18: a relay call has counted itself as inbound once, from its first
\* step on and also when it is answered 413; its forwarded count is the
\* number of backends for which client.Do was called, each called once; its
\* latency observations are as many as the calls of client.Do that have
\* returned; and a backend skipped at URL parsing or request construction is
\* in neither.
C18_MetricsOncePerAttempt ==
    \A p \in Clients :
        loc[p].op = "HandleProxy" =>
            /\ loc[p].inbound = 1
            /\ \A k \in Indices(p) : Sent(p, k) <= 1
            /\ loc[p].forwarded = Cardinality(Executed(p))
            /\ loc[p].latency = Cardinality(Observed(p))
            /\ \A n \in 1..Len(loc[p].log) :
                  loc[p].log[n].kind \in {"parse", "construct"} =>
                      loc[p].log[n].i \notin Executed(p)
            /\ RelayDone(p) => loc[p].latency = loc[p].forwarded

\* a finished call over three backends: one skipped at URL parsing, one at
\* request construction, one that answered
C18_Witness ==
    \E p \in Clients :
        /\ RelayAccepted(p)
        /\ \A kind \in {"parse", "construct", "response"} :
              \E n \in 1..Len(loc[p].log) : loc[p].log[n].kind = kind
        /\ loc[p].inbound = 1 /\ loc[p].forwarded = 1 /\ loc[p].latency = 1

(***************************************************************************)
(* The order of the attempts of one relay call.                            *)
(***************************************************************************)
\* the entries whose client.Do has been called and has not returned
InFlight(p) == IF loc[p].pc = "do" THEN {loc[p].i} ELSE {}

\* C17: in a relay call at most one outbound request is in flight; the
\* backends are dealt with in list order, entry n of the call's record being
\* backend n of the list; and while the request to backend i is in flight,
\* or the loop stands before backend i, every backend before i is finished
\* (skipped, failed or answered) and no backend from i on has been started.
C17_OneAtATimeInOrder ==
    \A p \in Clients :
        loc[p].op = "HandleProxy" =>
            /\ Cardinality(InFlight(p)) <= 1
            /\ \A n \in 1..Len(loc[p].log) :
                  /\ loc[p].log[n].i = n - 1
                  /\ loc[p].log[n].backend = BackendAt(p, n - 1)
            /\ loc[p].pc \in {"iter", "do"} =>
                  /\ loc[p].i = Len(loc[p].log)
                  /\ \A k \in Indices(p) :
                        Sent(p, k) > 0 => k \in InFlight(p) \/ k < loc[p].i

\* the request to the third backend in flight after the first backend
\* answered and the request to the second failed
C17_Witness ==
    \E p \in Clients :
        /\ loc[p].op = "HandleProxy" /\ InFlight(p) = {2}
        /\ Len(loc[p].log) = 2
        /\ loc[p].log[1].kind = "response" /\ loc[p].log[2].kind = "transport"

(***************************************************************************)
(* The outbound requests of one relay call.                                *)
(***************************************************************************)
\* the requests client.Do was called with, each with the backend it was
\* built for: those that have returned and the one in flight
Outbound(p) ==
    {[backend |-> loc[p].log[n].backend, request |-> loc[p].log[n].request] :
        n \in {m \in 1..Len(loc[p].log) : loc[p].log[m].kind \in {"transport", "response"}}}
    \cup (IF loc[p].pc = "do"
          THEN {[backend |-> loc[p].backend, request |-> loc[p].newRequest]}
          ELSE {})

\* the text of scheme and host of backend URL b followed by path and query
\* of URL t
TargetText(b, t) ==
    (IF b.Scheme # "" THEN <<b.Scheme, ":">> ELSE << >>)
    \o (IF b.Host # "" THEN <<"//", b.Host>> ELSE << >>)
    \o t.Path
    \o (IF t.RawQuery # << >> THEN <<"?">> \o t.RawQuery ELSE << >>)

C15_WholeBodyEachBackend ==
    \A p \in Clients :
        loc[p].op = "HandleProxy" =>
            /\ \A o \in Outbound(p) : o.request.Body = [lo |-> 0, hi |-> loc[p].size]
            /\ loc[p].pc = "do" => loc[p].reader = 0

\* a body of 25 MiB relayed to three backends: the first did not answer, the
\* other two answered, and the reader of the last request was read to the end
C15_Witness ==
    \E p \in Clients :
        /\ RelayAccepted(p) /\ loc[p].size = maxReqSize
        /\ Len(loc[p].log) = 3
        /\ loc[p].log[1].kind = "transport"
        /\ loc[p].log[2].kind = "response" /\ loc[p].log[3].kind = "response"
        /\ \A n \in 1..3 : loc[p].log[n].request.Body = [lo |-> 0, hi |-> maxReqSize]
        /\ loc[p].reader = maxReqSize

(***************************************************************************)
(* Termination of a relay call.                                            *)
(***************************************************************************)
\* the proxy as it may be configured: any backend list, the default timeout
\* or one from the environment
LiveInit ==
    \E list \in DistinctSeqs(RelayUrls, MaxInitBackends),
       duration \in Timeouts \cup {DefaultTimeout} : NewSprayProxy(list, duration)

\* client.Timeout = p.fwdReqTmout ends a client.Do that has not returned; a
\* Timeout that is not positive sets no deadline
TimeoutExpires(p) ==
    /\ fwdReqTmout > 0
    /\ RelayDo(p, [err |-> TRUE, StatusCode |-> 0])

\* the handler's goroutine keeps running, and a running timer expires; no
\* backend is bound to answer, and no request is bound to arrive
RelayLiveSpec ==
    /\ LiveInit
    /\ [][RelayNext]_vars
    /\ \A p \in Clients :
          /\ WF_vars(RelayRange(p))
          /\ WF_vars(RelayIter(p))
          /\ WF_vars(TimeoutExpires(p))
          /\ WF_vars(RelayReply(p))

\* a relay call has written no response before it ends and one when it has
\* ended: 200 "proxied", 413 or 502 "failed to proxy"
OneResponse(p) ==
    loc[p].op = "HandleProxy" =>
        IF loc[p].pc = "done"
        THEN /\ loc[p].responses = 1
             /\ \/ loc[p].status = StatusOK /\ loc[p].body = <<"proxied">>
                \/ loc[p].status = StatusRequestEntityTooLarge
                \/ loc[p].status = StatusBadGateway /\ loc[p].body = <<"failed to proxy">>
        ELSE loc[p].responses = 0

\* C14 as stated: every relay call ends, and it writes one response, with
\* status 200, 413 or 502, when it ends and none before.
C14_AlwaysCompletes ==
    \A p \in Clients :
        /\ [] OneResponse(p)
        /\ (loc[p].op = "HandleProxy") ~> RelayDone(p)

\* C14, amended: every relay call of a proxy whose forwarding timeout is
\* positive ends; and every relay call writes one response, with status 200,
\* 413 or 502, when it ends and none before.
C14_CompletesUnderTimeout ==
    \A p \in Clients :
        /\ [] OneResponse(p)
        /\ (loc[p].op = "HandleProxy" /\ fwdReqTmout > 0) ~> RelayDone(p)

\* a call answered 502 by a proxy with the default timeout after the request
\* to its only backend that parses failed
C14_Witness ==
    \E p \in Clients :
        /\ RelayDone(p) /\ fwdReqTmout = DefaultTimeout
        /\ loc[p].responses = 1 /\ loc[p].status = StatusBadGateway
        /\ Len(loc[p].log) = 2
        /\ loc[p].log[1].kind = "parse" /\ loc[p].log[2].kind = "transport"

(***************************************************************************)
(* A relay or List call and two admin calls, all three concurrent, on a    *)
(* registry that Register calls have built.                                *)
(***************************************************************************)
\* the URLs registered before the three calls arrive, in this order
RaceUrls == <<UrlNoScheme, UrlBadEscape, UrlD>>
\* the values of the "server" parameter: of the Register calls of two
\* concurrent admin calls and of their Unregister calls, and of one admin
\* call that runs beside a relay or List call
RaceRegistered == {UrlA, UrlB}
RaceUnregistered == {UrlNoScheme}
MutateServers == {UrlA, UrlNoScheme, UrlD}

\* the heap and p.backends after Register(list[1]), ..., Register(list[n]),
\* one after the other, on a proxy constructed without backends
RECURSIVE Grown(_)
Grown(list) ==
    IF Len(list) = 0 THEN [heap |-> << >>, hdr |-> NilSlice]
    ELSE LET before == Grown(SubSeq(list, 1, Len(list) - 1))
             r == goAppend(before.heap, before.hdr, list[Len(list)])
         IN  [heap |-> [a \in {r.hdr.arr} |-> r.heap[a]], hdr |-> r.hdr]

RaceInit ==
    \E n \in 0..Len(RaceUrls) :
        /\ n <= MaxInitBackends
        /\ heap = Grown(SubSeq(RaceUrls, 1, n)).heap
        /\ backends = Grown(SubSeq(RaceUrls, 1, n)).hdr
        /\ loc = [p \in Procs |-> Idle]
        /\ last = [op |-> "none", server |-> EmptyString, status |-> 0]
        /\ fwdReqTmout = DefaultTimeout

\* the steps of an admin call of goroutine p after it has begun
AdminStep(p) ==
    \/ RegisterCheck(p)
    \/ RegisterAppend(p)
    \/ RegisterStore(p)
    \/ RegisterReply(p)
    \/ UnregisterFilter(p)
    \/ UnregisterStore(p)
    \/ UnregisterReply(p)

\* the steps of one relay call (an empty body, POST /webhook?x=1) or of one
\* List call of goroutine p
ReaderCall(p) ==
    \/ RelayBegin(p, 0, [Method |-> "POST", Header |-> <<"X-Foo: bar">>,
                         URL |-> TargetWebhook], FALSE)
    \/ RelayRange(p)
    \/ RelayIter(p)
    \/ \E r \in [err : BOOLEAN, StatusCode : {0, StatusOK}] : RelayDo(p, r)
    \/ RelayReply(p)
    \/ List(p, FALSE)

\* a relay or List call and one Register or Unregister call per admin
\* goroutine
RaceNext ==
    \/ \E p \in Clients : ReaderCall(p)
    \/ \E p \in Admins, server \in RaceRegistered : RegisterBegin(p, server, FALSE)
    \/ \E p \in Admins, server \in RaceUnregistered : UnregisterBegin(p, server, FALSE)
    \/ \E p \in Admins : AdminStep(p)

RaceSpec == RaceInit /\ [][RaceNext]_vars

\* the admin goroutine whose call runs beside the relay or List call
Mutator == "a1"

\* a relay or List call and one Register or Unregister call
MutateNext ==
    \/ \E p \in Clients : ReaderCall(p)
    \/ \E server \in MutateServers : RegisterBegin(Mutator, server, FALSE)
    \/ \E server \in MutateServers : UnregisterBegin(Mutator, server, FALSE)
    \/ AdminStep(Mutator)

\* the goroutine of the admin call keeps running; nothing is assumed of the
\* relay call and its backends
MutateSpec == RaceInit /\ [][MutateNext]_vars /\ WF_vars(AdminStep(Mutator))

(***************************************************************************)
(* Lists read while the registry is being changed.                         *)
(***************************************************************************)
\* C12: the list a relay or List call read from p.backends while one
\* Register or Unregister call was running, and no other had run, is the
\* registry as it was before that call or as that call leaves it.
C12_ReadIsPreOrPost ==
    \A p \in Clients :
        (loc[p].read /\ loc[p].during = {Mutator} /\ loc[p].settled = {}) =>
            \/ loc[p].snap = loc[Mutator].pre
            \/ loc[p].snap = Serial(loc[Mutator].op, loc[Mutator].server,
                                    loc[Mutator].pre).list

(***************************************************************************)
(* Admin calls beside a relay call.                                        *)
(***************************************************************************)
\* the relay call of p is between its first step and its response
InFlightCall(p) == loc[p].op = "HandleProxy" /\ loc[p].pc \notin {"idle", "done"}

\* the admin call of q has begun and is not answered
Mutating(q) == loc[q].pc \notin {"idle", "done"}

\* C13: while a relay call is in flight, the request to a backend unanswered
\* or not, a Register or Unregister call can begin, each of its steps can be
\* taken when it is reached, and the call is answered even if the relay
\* call never takes another step.
C13_MutationNotBlocked ==
    \A p \in Clients :
        /\ [](InFlightCall(p) /\ loc[Mutator].pc = "idle" =>
                 /\ ENABLED RegisterBegin(Mutator, UrlD, FALSE)
                 /\ ENABLED UnregisterBegin(Mutator, UrlD, FALSE))
        /\ [](InFlightCall(p) /\ Mutating(Mutator) => ENABLED AdminStep(Mutator))
        /\ (InFlightCall(p) /\ Mutating(Mutator)) ~> (loc[Mutator].pc = "done")

\* Register("http://a") arrived while the relay call was waiting for a
\* backend, and is answered 200 while the relay call is still waiting for it
C13_Witness ==
    \E p \in Clients :
        /\ InFlightCall(p) /\ loc[p].pc = "do" /\ loc[p].i = 0
        /\ AdminDone(Mutator, "Register") /\ loc[Mutator].server = UrlA
        /\ ~loc[Mutator].quiet
        /\ loc[Mutator].pre = Elems(loc[p].hdr, heap)
        /\ loc[Mutator].status = StatusOK
        /\ Registry = Append(loc[Mutator].pre, UrlA)

(***************************************************************************)
(* Lists that were handed out.                                             *)
(***************************************************************************)
\* C11: the list a relay call ranges over stays, in length and in every
\* entry, the list it was when the call read it from p.backends, whatever
\* Register and Unregister calls run meanwhile.
C11_HandedOutListStable ==
    \A p \in Clients :
        (loc[p].op = "HandleProxy" /\ loc[p].read /\ loc[p].pc \in {"iter", "do"}) =>
            Elems(loc[p].hdr, heap) = loc[p].snap

====
